---- MODULE Spec2Model ----
(***************************************************************************)
(* Post listing of src/lib/posts.ts ("posts copy 1.ts"): the paginated,    *)
(* filterable query getPostsWithOptions and the realtime subscription      *)
(* subscribeToPostsRealtime, over a Firestore collection "posts" that is   *)
(* written by createPost / updatePost / deletePost.                        *)
(*                                                                         *)
(* The Firestore client is modelled by what the calls of the source ask of *)
(* it: where == , orderBy desc (ties broken by document id, in the same    *)
(* direction), startAfter(snapshot), limit, getDocs (resolves or rejects)  *)
(* and onSnapshot (a first snapshot at registration, one per later change  *)
(* of the result set, in order, none after unsubscribe or after an error). *)
(* Fields of a document the listing never reads (content, updatedAt,       *)
(* authorPhotoURL) are left out.                                           *)
(***************************************************************************)
EXTENDS Integers, Sequences, FiniteSets, TLC

VARIABLES posts, used, clock, updates, call, walk, subs

vars == <<posts, used, clock, updates, call, walk, subs>>

(* ------------------------------ bounds -------------------------------- *)

\* Number of document ids the store ever hands out.
MaxIds == 3
\* Largest server timestamp; two posts may share one timestamp.
MaxClock == 2
\* Largest limitCount a caller passes.
MaxLimit == 2
\* Number of updatePost calls in a behaviour.
MaxUpdates == 1
\* Number of subscribeToPostsRealtime registrations in a behaviour.
MaxSubs == 2

\* Snapshots raised for one listener and not yet delivered.
MaxPending == 2

Ids == 1..MaxIds
SubIds == 1..MaxSubs
Limits == 1..MaxLimit

(* ------------------------------ values -------------------------------- *)

Null == "<null>"
NoDoc == [id |-> 0]

Categories == {"tech", "life"}

\* PostInput values a caller writes (category may be absent).
PostInputs ==
  { [title |-> "a", category |-> "tech"],
    [title |-> "b", category |-> "life"],
    [title |-> "b", category |-> Null] }

\* Signed-in users; Bob has no display name.
Ann == [uid |-> "u1", email |-> "ann@x", displayName |-> "Ann"]
Bob == [uid |-> "u2", email |-> "bob@x", displayName |-> ""]

\* The createPost calls made: who posts what.
NewPosts ==
  { [postInput |-> [title |-> "a", category |-> "tech"], user |-> Ann],
    [postInput |-> [title |-> "b", category |-> "life"], user |-> Bob],
    [postInput |-> [title |-> "b", category |-> Null], user |-> Ann] }

StoreErrors == {"unavailable", "permission-denied"}

\* Options objects a caller passes: a category and a limitCount, a category
\* alone, or a limitCount alone.
Options ==
  { [category |-> c, limitCount |-> n] : c \in Categories \cup {Null}, n \in Limits }
  \cup { [category |-> "tech"], [limitCount |-> MaxLimit] }

\* const { f = default } = options
OrDefault(o, f, default) == IF f \in DOMAIN o THEN o[f] ELSE default

\* JavaScript truthiness of a category option / a string.
Truthy(v) == v # Null /\ v # ""

\* a || null
OrNull(v) == IF Truthy(v) THEN v ELSE Null

(* --------------------------- the collection --------------------------- *)

Docs(coll) == { coll[i] : i \in { j \in Ids : coll[j] # NoDoc } }

\* createPost's newPost object, with the id and timestamp the store assigns.
NewPost(id, now, postInput, user) ==
  [ id |-> id,
    title |-> postInput.title,
    category |-> postInput.category,
    authorId |-> user.uid,
    authorEmail |-> user.email,
    authorDisplayName |-> OrNull(user.displayName),
    createdAt |-> now,
    viewCount |-> 0,
    thumbnailUrl |-> Null ]

\* updateDoc(docRef, {...postInput, updatedAt}): merges the input's fields.
UpdatedPost(d, postInput) ==
  [d EXCEPT !.title = postInput.title, !.category = postInput.category]

(* ------------------------- the store's queries ------------------------ *)

\* A QueryDocumentSnapshot used as a cursor: the document's id and the value
\* of the orderBy field, which is all startAfter reads of it.
Handle(d) == [id |-> d.id, createdAt |-> d.createdAt]

\* Position of a document in the descending scan: createdAt, then id.
Before(a, b) ==
  \/ a.createdAt > b.createdAt
  \/ a.createdAt = b.createdAt /\ a.id > b.id

Newest(S) == CHOOSE d \in S : \A e \in S \ {d} : Before(d, e)

RECURSIVE SortDesc(_)
SortDesc(S) ==
  IF S = {} THEN <<>>
  ELSE LET d == Newest(S) IN <<d>> \o SortDesc(S \ {d})

Take(s, n) == SubSeq(s, 1, IF Len(s) < n THEN Len(s) ELSE n)

Satisfies(d, c) ==
  CASE c.op = "where" -> d[c.field] = c.value
    [] c.op = "startAfter" -> Before(c.doc, d)
    [] OTHER -> TRUE

\* The snapshot.docs of a query: filtered, ordered, resumed, bounded.
Execute(constraints, coll) ==
  LET cs == { constraints[i] : i \in 1..Len(constraints) }
      matching == { d \in Docs(coll) : \A c \in cs : Satisfies(d, c) }
      bound == { c.n : c \in { x \in cs : x.op = "limit" } }
      sorted == SortDesc(matching)
  IN IF bound = {} THEN sorted ELSE Take(sorted, CHOOSE n \in bound : TRUE)

(* ------------------------- getPostsWithOptions ------------------------ *)

\* A faulty variant: the bound is limitCount, without the extra document.
FetchConstraintsNoOverfetch(category, limitCount, lastDoc) ==
  (IF Truthy(category)
     THEN << [op |-> "where", field |-> "category", value |-> category] >>
     ELSE <<>>)
  \o << [op |-> "orderBy", field |-> "createdAt", dir |-> "desc"] >>
  \o (IF lastDoc # NoDoc THEN << [op |-> "startAfter", doc |-> lastDoc] >> ELSE <<>>)
  \o << [op |-> "limit", n |-> limitCount] >>

\* A faulty variant: the category filter is not pushed.
FetchConstraintsNoFilter(category, limitCount, lastDoc) ==
  << [op |-> "orderBy", field |-> "createdAt", dir |-> "desc"] >>
  \o (IF lastDoc # NoDoc THEN << [op |-> "startAfter", doc |-> lastDoc] >> ELSE <<>>)
  \o << [op |-> "limit", n |-> limitCount + 1] >>

\* The constraints getPostsWithOptions pushes, in order.
FetchConstraints(category, limitCount, lastDoc) ==
  (IF Truthy(category)
     THEN << [op |-> "where", field |-> "category", value |-> category] >>
     ELSE <<>>)
  \o << [op |-> "orderBy", field |-> "createdAt", dir |-> "desc"] >>
  \o (IF lastDoc # NoDoc THEN << [op |-> "startAfter", doc |-> lastDoc] >> ELSE <<>>)
  \o << [op |-> "limit", n |-> limitCount + 1] >>

\* A faulty variant: the two author fields are filled from each other.
FetchItemSwapped(d) ==
  [ id |-> d.id,
    title |-> d.title,
    category |-> d.category,
    authorEmail |-> d.authorDisplayName,
    authorDisplayName |-> d.authorEmail,
    createdAt |-> d.createdAt ]

\* The object getPostsWithOptions makes of a document.
FetchItem(d) ==
  [ id |-> d.id,
    title |-> d.title,
    category |-> d.category,
    authorEmail |-> d.authorEmail,
    authorDisplayName |-> d.authorDisplayName,
    createdAt |-> d.createdAt ]

\* docs.map(...)
FetchItems(docs) == [ i \in 1..Len(docs) |-> FetchItem(docs[i]) ]

\* A faulty variant: hasMore is decided with >= instead of >.
FetchResultOffByOne(snapDocs, limitCount) ==
  LET hasMore == Len(snapDocs) >= limitCount
      docs == IF hasMore THEN SubSeq(snapDocs, 1, limitCount) ELSE snapDocs
  IN [ posts |-> FetchItems(docs),
       lastDoc |-> IF Len(docs) > 0 THEN Handle(docs[Len(docs)]) ELSE NoDoc,
       hasMore |-> hasMore ]

\* A faulty variant: the cursor is the last document of the snapshot, the extra one
\* included.
FetchResultCursorOfExtra(snapDocs, limitCount) ==
  LET hasMore == Len(snapDocs) > limitCount
      docs == IF hasMore THEN SubSeq(snapDocs, 1, limitCount) ELSE snapDocs
  IN [ posts |-> FetchItems(docs),
       lastDoc |-> IF Len(snapDocs) > 0 THEN Handle(snapDocs[Len(snapDocs)]) ELSE NoDoc,
       hasMore |-> hasMore ]

\* What getPostsWithOptions makes of the snapshot getDocs resolved with.
FetchResult(snapDocs, limitCount) ==
  LET hasMore == Len(snapDocs) > limitCount
      docs == IF hasMore THEN SubSeq(snapDocs, 1, limitCount) ELSE snapDocs
  IN [ posts |-> FetchItems(docs),
       lastDoc |-> IF Len(docs) > 0 THEN Handle(docs[Len(docs)]) ELSE NoDoc,
       hasMore |-> hasMore ]

NoResult == [posts |-> <<>>, lastDoc |-> NoDoc, hasMore |-> FALSE]

\* One call of getPostsWithOptions. queries counts the getDocs it issued,
\* raised is the error the store failed the query with, error the one the
\* returned promise rejected with.
IdleCall ==
  [ st |-> "idle", category |-> Null, limitCount |-> 1, lastDoc |-> NoDoc,
    queries |-> 0, raised |-> Null, error |-> Null, result |-> NoResult ]

\* limitCount of getPostsWithOptions when the options name none.
DefaultPageSize == 5

\* The options are read, the constraints are built and getDocs sends the
\* query.
IssueCall(o, lastDoc) ==
  [ IdleCall EXCEPT !.st = "pending",
                    !.category = OrDefault(o, "category", Null),
                    !.limitCount = OrDefault(o, "limitCount", DefaultPageSize),
                    !.lastDoc = lastDoc,
                    !.queries = 1 ]

\* getDocs resolved: the rest of the function runs and the promise resolves.
OnResolved(c, snapDocs) ==
  [c EXCEPT !.st = "resolved", !.result = FetchResult(snapDocs, c.limitCount)]

\* A faulty variant: a failed query is caught and sent again.
OnRejectedRetry(c, err) ==
  [c EXCEPT !.st = "pending", !.queries = c.queries + 1]

\* getDocs rejected: nothing catches it, the promise rejects with the error.
OnRejected(c, err) ==
  [c EXCEPT !.st = "rejected", !.error = err]

\* A caller chaining pages from the first: acc is what the pages returned so
\* far, one after the other.
NoWalk == [on |-> FALSE, done |-> FALSE, pages |-> 0, acc |-> <<>>]

(* ----------------------- subscribeToPostsRealtime --------------------- *)

\* A faulty variant: the standing query is bounded like a page, one document over.
SubConstraintsOverfetch(category, limitCount) ==
  (IF Truthy(category)
     THEN << [op |-> "where", field |-> "category", value |-> category] >>
     ELSE <<>>)
  \o << [op |-> "orderBy", field |-> "createdAt", dir |-> "desc"] >>
  \o << [op |-> "limit", n |-> limitCount + 1] >>

\* The constraints subscribeToPostsRealtime pushes, in order.
SubConstraints(category, limitCount) ==
  (IF Truthy(category)
     THEN << [op |-> "where", field |-> "category", value |-> category] >>
     ELSE <<>>)
  \o << [op |-> "orderBy", field |-> "createdAt", dir |-> "desc"] >>
  \o << [op |-> "limit", n |-> limitCount] >>

\* limitCount of subscribeToPostsRealtime when the options name none.
DefaultListSize == 20

\* One subscription. st is the listener's state in the store, cancelled is
\* whether the caller called the returned function, queue the snapshots
\* raised and not yet delivered, got the list the callback was last called
\* with, calls 0 before the first call and then 1, 2, 1, 2 ... (it changes at
\* every call), reg the collection as it was when the store registered the
\* query (kept until the first call).
NoSub ==
  [ st |-> "none", cancelled |-> FALSE, category |-> Null, limitCount |-> 1,
    queue |-> <<>>, calls |-> 0, got |-> <<>>, reg |-> <<>> ]

\* The object the snapshot listener makes of a document.
SnapshotItem(d) ==
  [ id |-> d.id,
    title |-> d.title,
    category |-> d.category,
    authorEmail |-> d.authorEmail,
    authorDisplayName |-> d.authorDisplayName,
    createdAt |-> d.createdAt ]

\* snapshot.docs.map(...)
SnapshotItems(docs) == [ i \in 1..Len(docs) |-> SnapshotItem(docs[i]) ]

\* A faulty variant: the callback is called only when there is something to show.
OnSnapshotSkipEmpty(sub, snapDocs) ==
  IF snapDocs = <<>>
    THEN sub
    ELSE [sub EXCEPT !.calls = IF sub.calls = 1 THEN 2 ELSE 1,
                     !.got = SnapshotItems(snapDocs),
                     !.reg = <<>>]

\* The listener passed to onSnapshot: maps the snapshot and calls callback.
OnSnapshot(sub, snapDocs) ==
  [sub EXCEPT !.calls = IF sub.calls = 1 THEN 2 ELSE 1,
              !.got = SnapshotItems(snapDocs),
              !.reg = <<>>]

\* A faulty variant: the returned function does not reach the store.
UnsubscribeNothing(all, s) == all

\* A faulty variant: one unsubscribe is shared by all subscriptions.
UnsubscribeAll(all, s) ==
  [ t \in SubIds |->
      IF all[t].st \in {"listening", "live"}
        THEN [all[t] EXCEPT !.st = "closed", !.queue = <<>>, !.reg = <<>>]
        ELSE all[t] ]

\* The function subscribeToPostsRealtime returns is onSnapshot's unsubscribe:
\* it removes listener s, and what was raised for it is never delivered.
Unsubscribe(all, s) ==
  [all EXCEPT ![s] = [all[s] EXCEPT !.st = "closed", !.queue = <<>>, !.reg = <<>>]]

IdSet(docs) == { docs[i].id : i \in 1..Len(docs) }

\* The store raises a snapshot for every live listener whose result set holds
\* the written document before or after the write.
Notify(all, old, new, id) ==
  [ s \in SubIds |->
      LET sub == all[s]
          cs == SubConstraints(sub.category, sub.limitCount)
          was == Execute(cs, old)
          now == Execute(cs, new)
      IN IF sub.st = "live" /\ id \in IdSet(was) \cup IdSet(now)
           THEN [sub EXCEPT !.queue = Append(sub.queue, now)]
           ELSE sub ]

(* ------------------------------- writes ------------------------------- *)

\* A write reaches the store. A result a caller holds is no picture of the
\* collection any more and is put away; a walk is no longer undisturbed.
\* (Writes wait while a listener has MaxPending snapshots undelivered: that
\* bounds the queues.)
Wrote(new, id) ==
  /\ \A s \in SubIds : Len(subs[s].queue) < MaxPending
  /\ posts' = new
  /\ subs' = Notify(subs, posts, new, id)
  /\ walk' = NoWalk
  /\ call' = IF call.st = "pending" THEN call ELSE IdleCall

CreatePost(postInput, user) ==
  \E id \in Ids \ used, now \in {clock, clock + 1} :
    /\ now <= MaxClock
    /\ used' = used \cup {id}
    /\ clock' = now
    /\ updates' = updates
    /\ Wrote([posts EXCEPT ![id] = NewPost(id, now, postInput, user)], id)

UpdatePost(id, postInput) ==
  /\ posts[id] # NoDoc
  /\ updates < MaxUpdates
  /\ updates' = updates + 1
  /\ Wrote([posts EXCEPT ![id] = UpdatedPost(posts[id], postInput)], id)
  /\ UNCHANGED <<used, clock>>

DeletePost(id) ==
  /\ posts[id] # NoDoc
  /\ Wrote([posts EXCEPT ![id] = NoDoc], id)
  /\ UNCHANGED <<used, clock, updates>>

(* --------------------------- fetch actions ---------------------------- *)

\* getPostsWithOptions(o) without a cursor: the first page of a walk.
FetchFirst(o) ==
  /\ call.st # "pending"
  /\ call' = IssueCall(o, NoDoc)
  /\ walk' = [on |-> TRUE, done |-> FALSE, pages |-> 0, acc |-> <<>>]
  /\ UNCHANGED <<posts, used, clock, updates, subs>>

\* The next page of the walk: the result's lastDoc is fed back as the cursor.
FetchNext ==
  /\ call.st = "resolved" /\ call.result.hasMore
  /\ walk.on /\ ~walk.done
  /\ call' = IssueCall([category |-> call.category, limitCount |-> call.limitCount],
                       call.result.lastDoc)
  /\ UNCHANGED <<posts, used, clock, updates, subs, walk>>

\* A call with a cursor the caller holds from some earlier page.
FetchAt(o, id) ==
  /\ call.st # "pending"
  /\ posts[id] # NoDoc
  /\ call' = IssueCall(o, Handle(posts[id]))
  /\ walk' = NoWalk
  /\ UNCHANGED <<posts, used, clock, updates, subs>>

\* The store answers the query against the collection as it is now.
GetDocsResolves ==
  /\ call.st = "pending"
  /\ LET snapDocs == Execute(FetchConstraints(call.category, call.limitCount, call.lastDoc), posts)
         c == OnResolved(call, snapDocs)
     IN /\ call' = c
        /\ walk' = IF walk.on
                     THEN [walk EXCEPT !.acc = walk.acc \o c.result.posts,
                                       !.pages = walk.pages + 1,
                                       !.done = ~c.result.hasMore]
                     ELSE NoWalk
  /\ UNCHANGED <<posts, used, clock, updates, subs>>

\* The store fails the query (transport, authentication, missing index ...).
GetDocsRejects(err) ==
  /\ call.st = "pending"
  /\ call' = OnRejected([call EXCEPT !.raised = err], err)
  /\ walk' = NoWalk
  /\ UNCHANGED <<posts, used, clock, updates, subs>>

(* ------------------------ subscription actions ------------------------ *)

\* subscribeToPostsRealtime(callback, o) returns at once; slots are taken in
\* order.
Subscribe(s, o) ==
  /\ subs[s].st = "none"
  /\ \A t \in SubIds : t < s => subs[t].st # "none"
  /\ subs' = [subs EXCEPT ![s] =
       [NoSub EXCEPT !.st = "listening",
                     !.category = OrDefault(o, "category", Null),
                     !.limitCount = OrDefault(o, "limitCount", DefaultListSize)]]
  /\ UNCHANGED <<posts, used, clock, updates, call, walk>>

\* The store registers the standing query and raises the first snapshot.
StoreRegisters(s) ==
  /\ subs[s].st = "listening"
  /\ LET sub == subs[s]
         first == Execute(SubConstraints(sub.category, sub.limitCount), posts)
     IN subs' = [subs EXCEPT ![s] =
                   [sub EXCEPT !.st = "live", !.queue = <<first>>, !.reg = posts]]
  /\ UNCHANGED <<posts, used, clock, updates, call, walk>>

\* The listen fails (e.g. permission denied): no error handler was passed to
\* onSnapshot, the listener is dropped and the callback hears nothing of it.
ListenFails(s) ==
  /\ subs[s].st \in {"listening", "live"}
  /\ subs' = [subs EXCEPT ![s] =
                [subs[s] EXCEPT !.st = "failed", !.queue = <<>>, !.reg = <<>>]]
  /\ UNCHANGED <<posts, used, clock, updates, call, walk>>

\* The next pending snapshot reaches the listener.
Deliver(s) ==
  /\ subs[s].queue # <<>>
  /\ subs' = [subs EXCEPT ![s] =
       [OnSnapshot(subs[s], Head(subs[s].queue)) EXCEPT !.queue = Tail(subs[s].queue)]]
  /\ UNCHANGED <<posts, used, clock, updates, call, walk>>

\* The caller calls the function subscribeToPostsRealtime returned.
Cancel(s) ==
  /\ subs[s].st \in {"listening", "live"}
  /\ ~subs[s].cancelled
  /\ subs' = Unsubscribe([subs EXCEPT ![s] = [subs[s] EXCEPT !.cancelled = TRUE]], s)
  /\ UNCHANGED <<posts, used, clock, updates, call, walk>>

(* --------------------------- specifications --------------------------- *)

Init ==
  /\ posts = [i \in Ids |-> NoDoc]
  /\ used = {}
  /\ clock = 1
  /\ updates = 0
  /\ call = IdleCall
  /\ walk = NoWalk
  /\ subs = [s \in SubIds |-> NoSub]

Create == \E c \in NewPosts : CreatePost(c.postInput, c.user)
Update == \E id \in Ids, p \in PostInputs : UpdatePost(id, p)
Delete == \E id \in Ids : DeletePost(id)

Write == Create \/ Update \/ Delete

Fetch ==
  \/ \E o \in Options : FetchFirst(o)
  \/ FetchNext
  \/ \E o \in Options, id \in Ids : FetchAt(o, id)
  \/ GetDocsResolves
  \/ \E err \in StoreErrors : GetDocsRejects(err)

Listen(S, O) ==
  \/ \E s \in S, o \in O : Subscribe(s, o)
  \/ \E s \in S : StoreRegisters(s)
  \/ \E s \in S : ListenFails(s)
  \/ \E s \in S : Deliver(s)
  \/ \E s \in S : Cancel(s)

\* The listing query, against a collection that is being written.
NextFetch == Write \/ Fetch
FetchSpec == Init /\ [][NextFetch]_vars

\* One realtime subscription, against a collection that is being written.
NextListen == Write \/ Listen({1}, Options)
ListenSpec == Init /\ [][NextListen]_vars

\* One realtime subscription against a growing collection, where the store
\* answers every listen (it registers the query or fails it) and every
\* snapshot it raised is delivered.
NextFairListen == Create \/ Listen({1}, Options)
FairListenSpec ==
  /\ Init /\ [][NextFairListen]_vars
  /\ WF_vars(StoreRegisters(1) \/ ListenFails(1))
  /\ WF_vars(Deliver(1))

\* Several subscriptions side by side, against a growing collection.
NextPair ==
  \/ Create
  \/ \E s \in SubIds, o \in {[limitCount |-> MaxLimit], [category |-> "tech", limitCount |-> 1]} :
        Subscribe(s, o)
  \/ \E s \in SubIds : StoreRegisters(s)
  \/ \E s \in SubIds : Deliver(s)
  \/ \E s \in SubIds : Cancel(s)
PairSpec == Init /\ [][NextPair]_vars

\* The query and a subscription together, against a growing collection.
Next ==
  \/ Create
  \/ \E o \in Options : FetchFirst(o)
  \/ GetDocsResolves
  \/ \E o \in Options : Subscribe(1, o)
  \/ StoreRegisters(1)
  \/ Deliver(1)
Spec == Init /\ [][Next]_vars

(* ======================= properties of the listing ==================== *)

\* The documents a category option selects (no option: all of them).
Selected(coll, category) ==
  { d \in Docs(coll) : Truthy(category) => d.category = category }

\* The selected documents that lie after a cursor in the descending scan.
Remaining(coll, category, lastDoc) ==
  { d \in Selected(coll, category) : lastDoc # NoDoc => Before(lastDoc, d) }

ItemIds(items) == { items[i].id : i \in 1..Len(items) }

NoDuplicates(items) ==
  \A i, j \in 1..Len(items) : i # j => items[i].id # items[j].id

Descending(items) ==
  \A i, j \in 1..Len(items) : i < j => items[i].createdAt >= items[j].createdAt

Resolved == call.st = "resolved"

\* C1: a walk from no cursor that feeds each lastDoc into the next call until
\* hasMore is false, with no write during it, returns every selected document
\* exactly once, in descending createdAt order.
C1_WalkVisitsEachOnce ==
  (walk.on /\ walk.done) =>
     /\ ItemIds(walk.acc) = { d.id : d \in Selected(posts, call.category) }
     /\ NoDuplicates(walk.acc)
     /\ Descending(walk.acc)

\* A finished walk of three pages over three documents, two of them with the
\* same createdAt.
C1_Witness ==
  /\ walk.on /\ walk.done
  /\ walk.pages = 3
  /\ Len(walk.acc) = 3
  /\ \E i \in 1..2 : walk.acc[i].createdAt = walk.acc[i + 1].createdAt

\* C2: a call returns at most limitCount items, and hasMore is true exactly
\* when a selected document after the cursor lies beyond the returned page.
C2_PageSizeAndHasMore ==
  Resolved =>
     /\ Len(call.result.posts) <= call.limitCount
     /\ call.result.hasMore <=>
          \E d \in Remaining(posts, call.category, call.lastDoc) :
             d.id \notin ItemIds(call.result.posts)

\* A filtered call with a cursor that returns a full page and has more.
C2_Witness ==
  /\ Resolved
  /\ Truthy(call.category)
  /\ call.lastDoc # NoDoc
  /\ call.result.hasMore
  /\ Len(call.result.posts) = call.limitCount

\* C4: with a category filter, every returned item has that category.
C4_OnlyTheCategory ==
  (Resolved /\ Truthy(call.category)) =>
     \A i \in 1..Len(call.result.posts) :
        call.result.posts[i].category = call.category

\* A filtered call that returned something while the collection also holds a
\* post of another category and a post with none.
C4_Witness ==
  /\ Resolved
  /\ call.category = "tech"
  /\ call.result.posts # <<>>
  /\ \E d \in Docs(posts) : d.category = "life"
  /\ \E d \in Docs(posts) : d.category = Null

\* C7: a call issues exactly one query; when the store fails it, the call
\* rejects with the store's error, is not retried and yields no result.
C7_OneQueryErrorPropagates ==
  /\ call.st # "idle" => call.queries = 1
  /\ call.raised # Null =>
       /\ call.st = "rejected"
       /\ call.error = call.raised
       /\ call.result = NoResult

\* A call with a cursor that the store failed.
C7_Witness ==
  /\ call.st = "rejected"
  /\ call.raised = "permission-denied"
  /\ call.lastDoc # NoDoc

\* C10: lastDoc is null exactly when no item is returned, and otherwise is the
\* handle of the last returned item; so hasMore implies a cursor, and an empty
\* selection yields no items, no cursor and hasMore false.
C10_CursorIsLastItem ==
  Resolved =>
     /\ call.result.lastDoc = NoDoc <=> call.result.posts = <<>>
     /\ call.result.posts # <<>> =>
          call.result.lastDoc.id = call.result.posts[Len(call.result.posts)].id
     /\ call.result.hasMore => call.result.lastDoc # NoDoc
     /\ Remaining(posts, call.category, call.lastDoc) = {} => call.result = NoResult

\* A page that has more: its cursor is the last item, not the extra document.
C10_Witness ==
  /\ Resolved
  /\ call.result.hasMore
  /\ call.result.lastDoc.id = call.result.posts[Len(call.result.posts)].id

(* ==================== properties of the subscription ================== *)

Min(a, b) == IF a < b THEN a ELSE b

\* items is the listing of coll for a category and a bound: the newest
\* selected documents, each once, newest first, as many as the bound allows,
\* every field an item carries being the document's.
IsListingOf(items, coll, category, n) ==
  /\ NoDuplicates(items)
  /\ Descending(items)
  /\ Len(items) = Min(n, Cardinality(Selected(coll, category)))
  /\ \A i \in 1..Len(items) :
       /\ coll[items[i].id] \in Selected(coll, category)
       /\ \A f \in DOMAIN items[i] : items[i][f] = coll[items[i].id][f]
  /\ \A d \in Selected(coll, category) :
       d.id \notin ItemIds(items) =>
          \A i \in 1..Len(items) : items[i].createdAt >= d.createdAt

\* What listener s knows last: the newest snapshot raised for it, or, when
\* all were delivered, the list its callback got.
Latest(s) ==
  IF subs[s].queue # <<>> THEN subs[s].queue[Len(subs[s].queue)] ELSE subs[s].got

UpToDate(s) ==
  /\ subs[s].queue = <<>> => subs[s].calls > 0
  /\ IsListingOf(Latest(s), posts, subs[s].category, subs[s].limitCount)

\* The callback of s is called in this step.
Called(s) == subs'[s].calls # subs[s].calls

\* The list passed is the oldest pending snapshot, which leaves the queue.
TakesOldest(s) ==
  /\ subs[s].queue # <<>>
  /\ subs'[s].queue = Tail(subs[s].queue)
  /\ Len(subs'[s].got) = Len(Head(subs[s].queue))
  /\ \A i \in 1..Len(subs'[s].got) :
       \A f \in DOMAIN subs'[s].got[i] :
          subs'[s].got[i][f] = Head(subs[s].queue)[i][f]

\* C3: once the returned function was called, the callback is never called
\* again, whatever is written later, and the cancellation itself calls
\* nothing.
C3_SilentAfterCancel ==
  [][\A s \in SubIds :
       subs'[s].cancelled =>
          /\ subs'[s].calls = subs[s].calls
          /\ subs'[s].got = subs[s].got]_vars

\* A cancelled subscription whose callback was called, and whose listing has
\* changed since.
C3_Witness ==
  /\ subs[1].cancelled
  /\ subs[1].calls > 0
  /\ ~IsListingOf(subs[1].got, posts, subs[1].category, subs[1].limitCount)

C6_SnapshotPerChangeInOrder ==
  /\ [](\A s \in SubIds : subs[s].st = "live" => UpToDate(s))
  /\ [][\A s \in SubIds : Called(s) => TakesOldest(s)]_vars

\* After the second call of the callback: a list cut to limitCount while
\* three posts are selected.
C6_Witness ==
  /\ subs[1].st = "live"
  /\ subs[1].queue = <<>>
  /\ subs[1].calls = 2
  /\ Len(subs[1].got) = subs[1].limitCount
  /\ Cardinality(Selected(posts, subs[1].category)) = 3

\* C8: cancelling one subscription leaves every other one as it is, and the
\* others stay up to date with every later change.
C8_CancelLeavesOthers ==
  /\ [][\A s, t \in SubIds :
          (s # t /\ ~subs[s].cancelled /\ subs'[s].cancelled) =>
             subs'[t] = subs[t]]_vars
  /\ [](\A t \in SubIds : subs[t].st = "live" => UpToDate(t))

\* Subscription 1 was cancelled with room left in its list; subscription 2,
\* with the same query, has since been given a post that 1 never saw.
C8_Witness ==
  /\ subs[1].cancelled
  /\ subs[1].calls > 0
  /\ subs[2].st = "live"
  /\ subs[2].calls > 0
  /\ subs[1].category = Null /\ subs[2].category = Null
  /\ Len(subs[1].got) < subs[1].limitCount
  /\ \E i \in 1..Len(subs[2].got) : subs[2].got[i].id \notin ItemIds(subs[1].got)

(* ======================== properties of the items ===================== *)

ListedFields ==
  {"id", "title", "category", "createdAt", "authorEmail", "authorDisplayName"}

SummaryFields ==
  ListedFields \cup {"authorId", "viewCount", "thumbnailUrl"}

\* The items a caller holds that picture the collection as it is: a resolved
\* call's, and a live subscription's once all its snapshots were delivered.
CurrentItems ==
  { call.result.posts[i] : i \in { j \in 1..Len(call.result.posts) : Resolved } }
  \cup UNION { { subs[s].got[i] : i \in 1..Len(subs[s].got) } :
                 s \in { t \in SubIds : subs[t].st = "live" /\ subs[t].queue = <<>> } }

\* C9 as the code has it: an item carries id, title, category, createdAt,
\* authorEmail and authorDisplayName, each the document's, and nothing else.
C9_ItemsCarryListedFields ==
  \A it \in CurrentItems :
    /\ DOMAIN it = ListedFields
    /\ \A f \in ListedFields : it[f] = posts[it.id][f]

\* C9 as claimed: an item carries all nine fields of a PostSummary, each the
\* document's.
C9_ItemsAreFullSummaries ==
  \A it \in CurrentItems :
    \A f \in SummaryFields : f \in DOMAIN it /\ it[f] = posts[it.id][f]

\* A page and a delivered list, with an author who has no display name.
C9_Witness ==
  /\ Resolved /\ call.result.posts # <<>>
  /\ subs[1].st = "live" /\ subs[1].queue = <<>> /\ subs[1].got # <<>>
  /\ \E it \in CurrentItems : it.authorDisplayName = Null
  /\ \E it \in CurrentItems : it.authorDisplayName = "Ann"
====
